---- MODULE Spec2Model ----
(***************************************************************************)
(* Model of AKWF-js/convert.py: the converter of AKWF_* directories of     *)
(* 16-bit mono WAV files into <bank>.json files plus manifest.json.        *)
(*                                                                         *)
(* File names are sequences of character codes, so that glob matching,     *)
(* Path.stem, sorted() and the f-string '<bank>.json' are computed as the  *)
(* code computes them.  A path is a sequence of names.  Normalised sample  *)
(* values are integers counting millionths (k stands for k * 10^-6).       *)
(* Failures of open(..., 'w') (permissions, a directory in the way, a full *)
(* disk) are outside the model.                                            *)
(***************************************************************************)
EXTENDS Integers, Sequences, FiniteSets, TLC

VARIABLES fs, argv, cwd, script_dir, pc, bank_dirs, idx, bank_names, trace,
          run, fs0, first, wav, wav_result

vars == <<fs, argv, cwd, script_dir, pc, bank_dirs, idx, bank_names, trace,
          run, fs0, first, wav, wav_result>>

(* ------------------------------ bounds --------------------------------- *)
\* files in the bank directories of the working root, all together
MaxFiles == 2
\* frames per WAV file in the read_wav specification
MaxFrames == 2

(* ------------------------------ names ---------------------------------- *)
\* "AKWF_"
sAKWF_ == <<65, 75, 87, 70, 95>>
\* ".wav"
sDotWav == <<46, 119, 97, 118>>
\* ".json"
sDotJson == <<46, 106, 115, 111, 110>>
\* "manifest.json"
sManifest == <<109, 97, 110, 105, 102, 101, 115, 116>> \o sDotJson
\* "AKWF_a", "AKWF_b": names the glob AKWF_* matches
nBankA == sAKWF_ \o <<97>>
nBankB == sAKWF_ \o <<98>>
\* "akwf_c": a name the (case-sensitive) glob does not match
nOther == <<97, 107, 119, 102, 95, 99>>
\* "a.wav", "a-.wav" ('-' sorts before '.'), "a.txt"
nWavA == <<97>> \o sDotWav
nWavADash == <<97, 45>> \o sDotWav
nTxtA == <<97, 46, 116, 120, 116>>
\* "AKWF_a.json": an output of an earlier run
nBankAJson == nBankA \o sDotJson
\* "w", "js": the two top-level directories of the model
nW == <<119>>
nJS == <<106, 115>>

\* str comparison of Python (code point by code point, a prefix is smaller)
RECURSIVE StrLess(_, _)
StrLess(a, b) ==
    IF b = <<>> THEN FALSE
    ELSE IF a = <<>> THEN TRUE
    ELSE IF Head(a) # Head(b) THEN Head(a) < Head(b)
    ELSE StrLess(Tail(a), Tail(b))

\* fnmatch of a pattern 'prefix*'
GlobPrefix(name, prefix) ==
    /\ Len(name) >= Len(prefix)
    /\ SubSeq(name, 1, Len(prefix)) = prefix

\* fnmatch of a pattern '*suffix'
GlobSuffix(name, suffix) ==
    /\ Len(name) >= Len(suffix)
    /\ SubSeq(name, Len(name) - Len(suffix) + 1, Len(name)) = suffix

\* PurePath.stem: the name up to its last dot, unless that dot leads or ends it
Stem(name) ==
    LET dots == {i \in 1..Len(name) : name[i] = 46}
        last == CHOOSE i \in dots : \A j \in dots : j <= i
    IN  IF dots # {} /\ 1 < last /\ last < Len(name)
        THEN SubSeq(name, 1, last - 1)
        ELSE name

\* sorted() of a set of names
RECURSIVE Sorted(_)
Sorted(S) ==
    IF S = {} THEN <<>>
    ELSE LET m == CHOOSE x \in S : \A y \in S : x = y \/ StrLess(x, y)
         IN  <<m>> \o Sorted(S \ {m})

(* ------------------------------ read_wav ------------------------------- *)
\* value / 32768.0
SCALE == 32768
\* round(x, 6)
NDIGITS == 6

None == [tag |-> "None"]
Raise == [tag |-> "raise"]
Value(v) == [tag |-> "value", val |-> v]

\* one '<h' item of struct.unpack: two bytes, little-endian, two's complement
UnpackH(lo, hi) ==
    LET u == lo + 256 * hi
    IN  IF u >= 32768 THEN u - 65536 ELSE u

\* n / d rounded to the nearest integer, ties upwards
HalfUp(n, d) == (2 * n + d) \div (2 * d)
\* n / d rounded to the nearest integer, ties to the even one
HalfEven(n, d) ==
    LET fl == n \div d
        r == n % d
    IN  IF 2 * r < d THEN fl
        ELSE IF 2 * r > d THEN fl + 1
        ELSE IF fl % 2 = 0 THEN fl ELSE fl + 1

\* the normalisation with ties rounded upwards
NormaliseHalfUp(s) == HalfUp(s * ((10 ^ NDIGITS) \div 64), SCALE \div 64)
\* round(s / 32768.0, 6) in millionths; s / 32768.0 is exact in binary
\* floating point, and 10^6 / 32768 = 15625 / 512 keeps the product in range
Normalise(s) == HalfEven(s * ((10 ^ NDIGITS) \div 64), SCALE \div 64)

\* read_wav(filepath) on the file content w:
\* [hdr: wave.open succeeds, nchannels, nframes, raw: what readframes returns]
ReadWav(w) ==
    IF ~w.hdr THEN Raise
    ELSE IF w.nchannels # 1 THEN None
    ELSE IF Len(w.raw) # 2 * w.nframes THEN Raise
    ELSE Value([i \in 1..w.nframes |->
                  Normalise(UnpackH(w.raw[2 * i - 1], w.raw[2 * i]))])

(* ----------------------------- file system ----------------------------- *)
\* A file system maps each existing path to its node: a directory, or a file
\* with its content.
Dir == [kind |-> "dir"]
WavFile(w) == [kind |-> "wav", w |-> w]
JsonFile(obj) == [kind |-> "json", obj |-> obj]
TextFile == [kind |-> "text"]

\* Path.exists()
Exists(f, p) == p \in DOMAIN f
\* Path.is_dir()
IsDir(f, p) == p \in DOMAIN f /\ f[p].kind = "dir"

\* Path.name, Path.parent, parent / name
Name(p) == p[Len(p)]
Parent(p) == SubSeq(p, 1, Len(p) - 1)
Join(d, name) == Append(d, name)

\* the names of the entries of directory d
Listing(f, d) == {Name(p) : p \in {q \in DOMAIN f : Len(q) = Len(d) + 1 /\ Parent(q) = d}}

\* d.glob('AKWF_*') in another order than sorted()
GlobBanksUnsorted(f, d) ==
    LET names == Sorted({n \in Listing(f, d) : GlobPrefix(n, sAKWF_)})
    IN  [i \in 1..Len(names) |-> Join(d, names[Len(names) + 1 - i])]
\* sorted(d.glob('AKWF_*')), as paths
GlobBanks(f, d) ==
    LET names == Sorted({n \in Listing(f, d) : GlobPrefix(n, sAKWF_)})
    IN  [i \in 1..Len(names) |-> Join(d, names[i])]
\* d.glob('*.wav') in another order than sorted()
GlobWavsUnsorted(f, d) ==
    LET names == Sorted({n \in Listing(f, d) : GlobSuffix(n, sDotWav)})
    IN  [i \in 1..Len(names) |-> Join(d, names[Len(names) + 1 - i])]
\* sorted(d.glob('*.wav')), as paths
GlobWavs(f, d) ==
    LET names == Sorted({n \in Listing(f, d) : GlobSuffix(n, sDotWav)})
    IN  [i \in 1..Len(names) |-> Join(d, names[i])]

\* open(path, 'a') followed by json.dump: the dump is added to the file
WriteJsonAppend(f, p, obj) ==
    [q \in DOMAIN f \cup {p} |->
       IF q # p THEN f[q]
       ELSE IF p \in DOMAIN f /\ f[p].kind = "json"
            THEN JsonFile([before |-> f[p].obj, dump |-> obj])
            ELSE JsonFile(obj)]
\* open(path, 'w') followed by json.dump: the file is created or replaced
WriteJson(f, p, obj) ==
    [q \in DOMAIN f \cup {p} |-> IF q = p THEN JsonFile(obj) ELSE f[q]]

\* read_wav(filepath): wave.open raises on anything that is not a WAV file
ReadWavAt(f, p) == IF f[p].kind = "wav" THEN ReadWav(f[p].w) ELSE Raise

(* ---------------------------- process_bank ----------------------------- *)
\* waveforms[name] = samples on a dict kept as its sequence of items
DictSet(d, k, v) ==
    IF \E i \in 1..Len(d) : d[i].key = k
    THEN [i \in 1..Len(d) |-> IF d[i].key = k THEN [key |-> k, val |-> v] ELSE d[i]]
    ELSE Append(d, [key |-> k, val |-> v])

\* the loop with a file that cannot be read skipped
RECURSIVE ReadAllSkipsBad(_, _, _, _)
ReadAllSkipsBad(f, files, i, waveforms) ==
    IF i > Len(files) THEN Value(waveforms)
    ELSE LET samples == ReadWavAt(f, files[i])
         IN  IF samples # None /\ samples # Raise
             THEN ReadAllSkipsBad(f, files, i + 1,
                                  DictSet(waveforms, Stem(Name(files[i])), samples.val))
             ELSE ReadAllSkipsBad(f, files, i + 1, waveforms)
\* the loop over sorted(bank_dir.glob('*.wav')), from file i on
RECURSIVE ReadAll(_, _, _, _)
ReadAll(f, files, i, waveforms) ==
    IF i > Len(files) THEN Value(waveforms)
    ELSE LET samples == ReadWavAt(f, files[i])
         IN  IF samples = Raise THEN Raise
             ELSE IF samples # None
                  THEN ReadAll(f, files, i + 1,
                               DictSet(waveforms, Stem(Name(files[i])), samples.val))
                  ELSE ReadAll(f, files, i + 1, waveforms)

\* '<bank_name>.json' beside the bank directory
BankFileInWorkDir(output_dir, bank_name) ==
    Join(IF Len(argv) > 0 THEN argv[1] ELSE cwd, bank_name \o sDotJson)
\* '<bank_name>.json' in the output directory
BankFile(output_dir, bank_name) == Join(output_dir, bank_name \o sDotJson)

\* process_bank with the progress line printed before the file is written
ProcessBankReportsFirst(f, bank_dir, output_dir) ==
    LET bank_name == Name(bank_dir)
        r == ReadAll(f, GlobWavs(f, bank_dir), 1, <<>>)
        output_file == BankFile(output_dir, bank_name)
    IN  IF r = Raise
        THEN [raised |-> TRUE, fs |-> f, events |-> <<>>, ret |-> None]
        ELSE IF r.val # <<>>
        THEN [raised |-> FALSE,
              fs |-> WriteJson(f, output_file, r.val),
              events |-> << [ev |-> "stdout", line |-> "Processed",
                             bank |-> bank_name, count |-> Len(r.val)],
                            [ev |-> "write", path |-> output_file] >>,
              ret |-> Value(bank_name)]
        ELSE [raised |-> FALSE, fs |-> f, events |-> <<>>, ret |-> None]
\* process_bank without the test 'if waveforms'
ProcessBankWritesEmpty(f, bank_dir, output_dir) ==
    LET bank_name == Name(bank_dir)
        r == ReadAll(f, GlobWavs(f, bank_dir), 1, <<>>)
        output_file == BankFile(output_dir, bank_name)
    IN  IF r = Raise
        THEN [raised |-> TRUE, fs |-> f, events |-> <<>>, ret |-> None]
        ELSE [raised |-> FALSE,
              fs |-> WriteJson(f, output_file, r.val),
              events |-> << [ev |-> "write", path |-> output_file],
                            [ev |-> "stdout", line |-> "Processed",
                             bank |-> bank_name, count |-> Len(r.val)] >>,
              ret |-> Value(bank_name)]
\* process_bank(bank_dir, output_dir) on file system f: whether it raises,
\* the file system it leaves, the events it causes and what it returns
ProcessBankFn(f, bank_dir, output_dir) ==
    LET bank_name == Name(bank_dir)
        r == ReadAll(f, GlobWavs(f, bank_dir), 1, <<>>)
        output_file == BankFile(output_dir, bank_name)
    IN  IF r = Raise
        THEN [raised |-> TRUE, fs |-> f, events |-> <<>>, ret |-> None]
        ELSE IF r.val # <<>>
        THEN [raised |-> FALSE,
              fs |-> WriteJson(f, output_file, r.val),
              events |-> << [ev |-> "write", path |-> output_file],
                            [ev |-> "stdout", line |-> "Processed",
                             bank |-> bank_name, count |-> Len(r.val)] >>,
              ret |-> Value(bank_name)]
        ELSE [raised |-> FALSE, fs |-> f, events |-> <<>>, ret |-> None]

(* -------------------------------- main --------------------------------- *)
\* Path(sys.argv[1]) if len(sys.argv) > 1 else Path('.'); argv holds sys.argv[1:]
WorkDir == IF Len(argv) > 0 THEN argv[1] ELSE cwd
\* Path(__file__).parent
OutputDir == script_dir
ManifestFile == Join(OutputDir, sManifest)

\* truth value of process_bank's result: None and '' are false
Truthy(ret) == ret # None /\ ret.val # <<>>

Terminal == {"exit0", "exit1", "raised"}

\* lines 60-65
CheckWorkDir ==
    /\ pc = "start"
    /\ IF ~IsDir(fs, WorkDir)
       THEN /\ trace' = Append(trace, [ev |-> "stderr", line |-> "not found"])
            /\ pc' = "exit1"
       ELSE /\ pc' = "glob"
            /\ UNCHANGED trace
    /\ UNCHANGED <<fs, argv, cwd, script_dir, bank_dirs, idx, bank_names,
                   run, fs0, first, wav, wav_result>>

\* lines 67-72
Discover ==
    /\ pc = "glob"
    /\ bank_dirs' = GlobBanks(fs, WorkDir)
    /\ IF bank_dirs' = <<>>
       THEN /\ trace' = Append(trace, [ev |-> "stderr", line |-> "no banks"])
            /\ pc' = "exit1"
       ELSE /\ pc' = "loop"
            /\ UNCHANGED trace
    /\ idx' = 1
    /\ bank_names' = <<>>
    /\ UNCHANGED <<fs, argv, cwd, script_dir, run, fs0, first, wav, wav_result>>

\* lines 73-74, a glob match that is not a directory
SkipNonDir ==
    /\ pc = "loop"
    /\ idx <= Len(bank_dirs)
    /\ ~IsDir(fs, bank_dirs[idx])
    /\ idx' = idx + 1
    /\ UNCHANGED <<fs, argv, cwd, script_dir, pc, bank_dirs, bank_names, trace,
                   run, fs0, first, wav, wav_result>>

\* lines 73-77, one bank directory
ProcessBank ==
    /\ pc = "loop"
    /\ idx <= Len(bank_dirs)
    /\ IsDir(fs, bank_dirs[idx])
    /\ LET r == ProcessBankFn(fs, bank_dirs[idx], OutputDir)
       IN  /\ ~r.raised
           /\ fs' = r.fs
           /\ trace' = trace \o r.events
           /\ bank_names' = IF Truthy(r.ret) THEN Append(bank_names, r.ret.val)
                            ELSE bank_names
    /\ idx' = idx + 1
    /\ UNCHANGED <<argv, cwd, script_dir, pc, bank_dirs, run, fs0, first,
                   wav, wav_result>>

\* lines 73-75, read_wav raises: the exception leaves process_bank and main
ProcessBankRaises ==
    /\ pc = "loop"
    /\ idx <= Len(bank_dirs)
    /\ IsDir(fs, bank_dirs[idx])
    /\ ProcessBankFn(fs, bank_dirs[idx], OutputDir).raised
    /\ pc' = "raised"
    /\ trace' = Append(trace, [ev |-> "stderr", line |-> "Traceback"])
    /\ UNCHANGED <<fs, argv, cwd, script_dir, bank_dirs, idx, bank_names,
                   run, fs0, first, wav, wav_result>>

\* lines 79-84
WriteManifest ==
    /\ pc = "loop"
    /\ idx > Len(bank_dirs)
    /\ fs' = WriteJson(fs, ManifestFile, [banks |-> bank_names])
    /\ trace' = trace \o << [ev |-> "write", path |-> ManifestFile],
                            [ev |-> "stdout", line |-> "Generated",
                             count |-> Len(bank_names)] >>
    /\ pc' = "exit0"
    /\ UNCHANGED <<argv, cwd, script_dir, bank_dirs, idx, bank_names,
                   run, fs0, first, wav, wav_result>>

\* the program is started again, with the same arguments, on the file system
\* the first run left
Rerun ==
    /\ pc \in Terminal
    /\ run = 1
    /\ run' = 2
    /\ first' = [pc |-> pc, fs |-> fs, trace |-> trace, bank_names |-> bank_names]
    /\ fs0' = fs
    /\ pc' = "start"
    /\ bank_dirs' = <<>>
    /\ idx' = 0
    /\ bank_names' = <<>>
    /\ trace' = <<>>
    /\ UNCHANGED <<fs, argv, cwd, script_dir, wav, wav_result>>

(* ---------------------------- initial states --------------------------- *)
\* WAV files of the runs: mono with one frame (-32768), mono without frames,
\* stereo, an unreadable header, 8-bit mono (one byte per frame)
Mono1 == [hdr |-> TRUE, nchannels |-> 1, nframes |-> 1, raw |-> <<0, 128>>]
Mono0 == [hdr |-> TRUE, nchannels |-> 1, nframes |-> 0, raw |-> <<>>]
Stereo == [hdr |-> TRUE, nchannels |-> 2, nframes |-> 1, raw |-> <<0, 0, 0, 0>>]
BadHeader == [hdr |-> FALSE, nchannels |-> 0, nframes |-> 0, raw |-> <<>>]
Mono8Bit == [hdr |-> TRUE, nchannels |-> 1, nframes |-> 1, raw |-> <<128>>]
RunWavs == {Mono1, Mono0, Stereo, BadHeader, Mono8Bit}

\* the content of a bank directory: files among a-.wav, a.wav, a.txt
FileNames == {nWavADash, nWavA, nTxtA}
BankContents ==
    UNION {[S -> {WavFile(w) : w \in RunWavs} \cup {TextFile}] :
             S \in {T \in SUBSET FileNames : Cardinality(T) <= MaxFiles}}
WellNamed(c) ==
    \A n \in DOMAIN c : (c[n].kind = "wav") <=> GlobSuffix(n, sDotWav)

\* an entry of the working root: absent, a regular file, or a directory
\* with its content
Entries ==
    {[kind |-> "absent"], [kind |-> "file"]}
    \cup {[kind |-> "dir", files |-> c] : c \in {b \in BankContents : WellNamed(b)}}
FileCount(e) == IF e.kind = "dir" THEN Cardinality(DOMAIN e.files) ELSE 0

\* what the output directory holds before the first run
StaleBank == << [key |-> <<111>>, val |-> <<>>] >>
StaleManifest == [banks |-> << <<111>> >>]

\* the file system with working root w holding entries a, b (AKWF_a, AKWF_b)
\* and o (akwf_c), and with stale outputs in output directory out when stale
Tree(w, name, e) ==
    IF e.kind = "absent" THEN <<>>
    ELSE IF e.kind = "file" THEN (Join(w, name) :> TextFile)
    ELSE (Join(w, name) :> Dir)
         @@ [p \in {Join(Join(w, name), n) : n \in DOMAIN e.files} |->
               e.files[Name(p)]]
MakeFs(w, a, b, o, out, stale) ==
    (IF stale
     THEN (Join(out, nBankAJson) :> JsonFile(StaleBank))
          @@ (Join(out, sManifest) :> JsonFile(StaleManifest))
     ELSE <<>>)
    @@ Tree(w, nBankA, a) @@ Tree(w, nBankB, b) @@ Tree(w, nOther, o)
    @@ (w :> Dir) @@ (<<nJS>> :> Dir)

Quiet ==
    /\ pc = "start" /\ bank_dirs = <<>> /\ idx = 0 /\ bank_names = <<>>
    /\ trace = <<>> /\ run = 1 /\ first = None /\ fs0 = fs
    /\ wav = None /\ wav_result = None

\* the working root is a directory
InitDir ==
    /\ \E a \in Entries, b \in Entries,
          o \in {[kind |-> "absent"], [kind |-> "dir", files |-> (nWavA :> WavFile(Mono1))]},
          stale \in BOOLEAN, explicit \in BOOLEAN :
         \E out \in {<<nJS>>, <<nW>>}
                    \cup (IF a.kind = "dir" THEN {<<nW, nBankA>>} ELSE {}) :
            /\ FileCount(a) + FileCount(b) <= MaxFiles
            /\ fs = MakeFs(<<nW>>, a, b, o, out, stale)
            /\ script_dir = out
            /\ argv = IF explicit THEN << <<nW>> >> ELSE <<>>
            /\ cwd = IF explicit THEN <<nJS>> ELSE <<nW>>
    /\ Quiet

\* the working root is a regular file or does not exist
InitNotDir ==
    /\ \E isfile \in BOOLEAN, stale \in BOOLEAN, explicit \in BOOLEAN :
         /\ explicit \/ ~isfile
         /\ fs = (IF isfile THEN (<<nW>> :> TextFile) ELSE <<>>)
                 @@ (IF stale
                     THEN (Join(<<nJS>>, nBankAJson) :> JsonFile(StaleBank))
                          @@ (Join(<<nJS>>, sManifest) :> JsonFile(StaleManifest))
                     ELSE <<>>)
                 @@ (<<nJS>> :> Dir)
         /\ argv = IF explicit THEN << <<nW>> >> ELSE <<>>
         /\ cwd = IF explicit THEN <<nJS>> ELSE <<nW>>
    /\ script_dir = <<nJS>>
    /\ Quiet

Init == InitDir \/ InitNotDir

Next ==
    \/ CheckWorkDir
    \/ Discover
    \/ SkipNonDir
    \/ ProcessBank
    \/ ProcessBankRaises
    \/ WriteManifest
    \/ Rerun

Spec == Init /\ [][Next]_vars

(* ------------------- read_wav on its own (SpecWav) --------------------- *)
\* byte values of the payloads: 0x00, 0x01, 0x7f, 0x80, 0xff
Bytes == {0, 1, 127, 128, 255}
RECURSIVE ByteSeqs(_)
ByteSeqs(n) ==
    IF n = 0 THEN {<<>>}
    ELSE LET shorter == ByteSeqs(n - 1)
         IN  shorter \cup {Append(q, b) : q \in {r \in shorter : Len(r) = n - 1}, b \in Bytes}

\* the WAV files read_wav is applied to
WavSpace ==
    {BadHeader}
    \cup [hdr : {TRUE}, nchannels : {1, 2}, nframes : 0..MaxFrames,
          raw : ByteSeqs(2 * MaxFrames)]

InitWav ==
    /\ wav \in WavSpace
    /\ wav_result = None
    /\ pc = "read_wav"
    /\ fs = <<>> /\ argv = <<>> /\ cwd = <<>> /\ script_dir = <<>>
    /\ bank_dirs = <<>> /\ idx = 0 /\ bank_names = <<>> /\ trace = <<>>
    /\ run = 1 /\ fs0 = <<>> /\ first = None

\* lines 21-36
ReadWavCall ==
    /\ pc = "read_wav"
    /\ wav_result' = ReadWav(wav)
    /\ pc' = "returned"
    /\ UNCHANGED <<fs, argv, cwd, script_dir, bank_dirs, idx, bank_names, trace,
                   run, fs0, first, wav>>

NextWav == ReadWavCall

SpecWav == InitWav /\ [][NextWav]_vars

(* ------------------------------ properties ----------------------------- *)
\* The input tree as it was when the current run started (fs0), described
\* without the operators of the program.
Children(f, d) == {p \in DOMAIN f : Len(p) = Len(d) + 1 /\ SubSeq(p, 1, Len(d)) = d}
StartsWithAKWF(n) == Len(n) >= 5 /\ \A i \in 1..5 : n[i] = sAKWF_[i]
EndsWithWav(n) == Len(n) >= 4 /\ \A i \in 1..4 : n[Len(n) - 4 + i] = sDotWav[i]
RootIsDir == WorkDir \in DOMAIN fs0 /\ fs0[WorkDir] = Dir
\* glob matches of the working root, and those that are directories
Matches == {p \in Children(fs0, WorkDir) : StartsWithAKWF(p[Len(p)])}
Groups == {p \in Matches : fs0[p] = Dir}
SampleFiles(g) == {p \in Children(fs0, g) : EndsWithWav(p[Len(p)])}
Unreadable(p) ==
    \/ fs0[p].kind # "wav"
    \/ ~fs0[p].w.hdr
    \/ fs0[p].w.nchannels = 1 /\ Len(fs0[p].w.raw) # 2 * fs0[p].w.nframes
MonoFiles(g) == {p \in SampleFiles(g) : ~Unreadable(p) /\ fs0[p].w.nchannels = 1}
BadGroups == {g \in Groups : \E p \in SampleFiles(g) : Unreadable(p)}
\* the name of a file without its last four characters
Base(p) == SubSeq(p[Len(p)], 1, Len(p[Len(p)]) - 4)
OutFile(g) == Append(OutputDir, g[Len(g)] \o sDotJson)
Ascending(q) == \A i, j \in 1..Len(q) : i < j => StrLess(q[i], q[j])
Range(q) == {q[i] : i \in 1..Len(q)}
Wrote(p) == \E i \in 1..Len(trace) : trace[i].ev = "write" /\ trace[i].path = p
Same(p) == (p \in DOMAIN fs <=> p \in DOMAIN fs0) /\ (p \in DOMAIN fs => fs[p] = fs0[p])

\* C1: when a run ends with status 0, the 'banks' list of manifest.json is the
\* ascending, duplicate-free sequence of the names of exactly those AKWF_*
\* directories that hold at least one mono sample file.
C1_ManifestListsMonoBanks ==
    pc = "exit0" =>
        /\ ManifestFile \in DOMAIN fs
        /\ fs[ManifestFile].kind = "json"
        /\ Ascending(fs[ManifestFile].obj.banks)
        /\ Range(fs[ManifestFile].obj.banks)
             = {g[Len(g)] : g \in {h \in Groups : MonoFiles(h) # {}}}

C1_Witness ==
    /\ pc = "exit0"
    /\ fs[ManifestFile].obj.banks = <<nBankB>>
    /\ <<nW, nBankA>> \in Groups
    /\ <<nW, nOther>> \in DOMAIN fs0

\* C2: a group directory holding only stereo files, or no sample files, has
\* no <group>.json written, no progress line, no entry in the collected names
\* and no entry in the manifest the run writes.
C2_NoOutputForGroupWithoutMono ==
    \A g \in Groups :
        (\A p \in SampleFiles(g) : ~Unreadable(p) /\ fs0[p].w.nchannels # 1) =>
            /\ ~Wrote(OutFile(g))
            /\ Same(OutFile(g))
            /\ \A i \in 1..Len(trace) :
                 trace[i].ev = "stdout" /\ trace[i].line = "Processed"
                     => trace[i].bank # g[Len(g)]
            /\ g[Len(g)] \notin Range(bank_names)
            /\ Wrote(ManifestFile) => g[Len(g)] \notin Range(fs[ManifestFile].obj.banks)

C2_Witness ==
    /\ pc = "exit0"
    /\ <<nW, nBankA>> \in Groups
    /\ SampleFiles(<<nW, nBankA>>) # {}
    /\ \A p \in SampleFiles(<<nW, nBankA>>) : fs0[p] = WavFile(Stereo)
    /\ fs[ManifestFile].obj.banks = <<nBankB>>

\* C3 (as claimed): when the working root is a directory without any AKWF_*
\* subdirectory, the run ends with status 1, reports on stderr and changes no
\* file.
C3_FailsFastWithoutGroupDirs ==
    RootIsDir /\ Groups = {} /\ pc \in Terminal =>
        /\ pc = "exit1"
        /\ \E i \in 1..Len(trace) : trace[i].ev = "stderr"
        /\ fs = fs0

\* C4: when the working root is not a directory, the run reports on stderr
\* and ends with status 1 before any group is discovered or processed, and
\* no file changes.
C4_FailsFastWhenRootIsNoDir ==
    ~RootIsDir =>
        /\ pc \in {"start", "exit1"}
        /\ pc = "exit1" => trace = << [ev |-> "stderr", line |-> "not found"] >>
        /\ bank_dirs = <<>> /\ idx = 0 /\ bank_names = <<>>
        /\ fs = fs0

C4_Witness ==
    /\ pc = "exit1"
    /\ WorkDir \in DOMAIN fs0
    /\ fs0[WorkDir] = TextFile
    /\ ManifestFile \in DOMAIN fs
    /\ fs[ManifestFile] = JsonFile(StaleManifest)

\* C5: the mapping written to <group>.json has one key per mono file of the
\* group, the file's name without '.wav', and no other key; the keys are in
\* the ascending order of the file names.
C5_KeysAreMonoBaseNames ==
    \A g \in Groups :
        g \notin BadGroups /\ Wrote(OutFile(g)) =>
            LET obj == fs[OutFile(g)].obj
            IN  /\ {obj[i].key : i \in 1..Len(obj)} = {Base(p) : p \in MonoFiles(g)}
                /\ Len(obj) = Cardinality(MonoFiles(g))
                /\ Ascending([i \in 1..Len(obj) |-> obj[i].key \o sDotWav])

C5_Witness ==
    /\ Wrote(OutFile(<<nW, nBankA>>))
    /\ fs[OutFile(<<nW, nBankA>>)].obj
         = << [key |-> <<97, 45>>, val |-> <<-1000000>>],
              [key |-> <<97>>, val |-> <<-1000000>>] >>

\* The 16-bit sample of frame i of a payload, described without UnpackH.
Sample(raw, i) ==
    raw[2 * i - 1] + 256 * raw[2 * i] - (IF raw[2 * i] >= 128 THEN 65536 ELSE 0)
ValidMono(w) == w.hdr /\ w.nchannels = 1 /\ Len(w.raw) = 2 * w.nframes

\* C6: for a valid mono file of n frames read_wav returns n values in frame
\* order, each the sample divided by 32768 and rounded to 6 decimals with
\* ties to even (v millionths: |512 v - 15625 s| <= 256, v even on a tie),
\* within [-1, 1]; 0 gives 0, -32768 gives -1.0 and 32767 gives 0.999969.
C6_NormalisedSamples ==
    pc = "returned" /\ ValidMono(wav) =>
        /\ wav_result.tag = "value"
        /\ Len(wav_result.val) = wav.nframes
        /\ \A i \in 1..wav.nframes :
             LET s == Sample(wav.raw, i)
                 v == wav_result.val[i]
                 err == 512 * v - 15625 * s
             IN  /\ -256 <= err /\ err <= 256
                 /\ (err = 256 \/ err = -256) => v % 2 = 0
                 /\ -1000000 <= v /\ v <= 1000000
                 /\ s = 0 => v = 0
                 /\ s = -32768 => v = -1000000
                 /\ s = 32767 => v = 999969

C6_Witness ==
    /\ pc = "returned"
    /\ wav.nchannels = 1
    /\ wav.raw = <<255, 127, 0, 128>>
    /\ wav_result = Value(<<999969, -1000000>>)

\* C7: a second run on the tree the first run left ends as the first run did
\* and leaves every file, manifest.json and each <group>.json included, as
\* the first run left it.
C7_SecondRunChangesNothing ==
    run = 2 /\ pc \in Terminal =>
        /\ pc = first.pc
        /\ fs = first.fs
        /\ bank_names = first.bank_names

C7_Witness ==
    /\ run = 2
    /\ pc = "exit0"
    /\ Wrote(ManifestFile)
    /\ Wrote(OutFile(<<nW, nBankB>>))
    /\ OutFile(<<nW, nBankA>>) \in DOMAIN fs
    /\ fs[OutFile(<<nW, nBankA>>)] = JsonFile(StaleBank)

\* every write of the run goes to manifest.json or to the <group>.json of a
\* group, in the output directory
WritesAreOutputs ==
    \A i \in 1..Len(trace) :
        trace[i].ev = "write" =>
            \/ trace[i].path = Append(script_dir, sManifest)
            \/ \E g \in Groups : trace[i].path = OutFile(g)
UnderWorkDir(p) == Len(p) >= Len(WorkDir) /\ SubSeq(p, 1, Len(WorkDir)) = WorkDir
InputTreeUntouched == \A p \in DOMAIN fs \cup DOMAIN fs0 : UnderWorkDir(p) => Same(p)

\* C8 (as claimed): every write goes to the output directory, and no file of
\* the working root or of its group directories is created, changed or
\* deleted.
C8_InputTreeNeverTouched == WritesAreOutputs /\ InputTreeUntouched

\* C8 (amended): every write goes to <group>.json or manifest.json in the
\* output directory, whatever the working root; every other path is left as
\* it was, so the input tree is untouched whenever the output directory is
\* not the working root or a directory below it.
C8_OnlyOutputDirTouched ==
    /\ WritesAreOutputs
    /\ \A p \in DOMAIN fs \cup DOMAIN fs0 : ~Same(p) => Wrote(p)
    /\ ~UnderWorkDir(script_dir) => InputTreeUntouched

C8_Witness ==
    /\ pc = "exit0"
    /\ script_dir = <<nW, nBankA>>
    /\ Wrote(<<nW, nBankA, nBankA \o sDotJson>>)
    /\ <<nW, nBankA, nBankA \o sDotJson>> \notin DOMAIN fs0

\* the first group, in ascending order of the names, with a file that
\* cannot be read
Before(g, h) == StrLess(g[Len(g)], h[Len(h)])
FirstBad == CHOOSE g \in BadGroups : \A h \in BadGroups : h = g \/ Before(g, h)

\* C9: when a group holds a file that cannot be read, the run stops at the
\* first such group with an exception: neither that group's <group>.json nor
\* anything of a later group is written or reported, manifest.json is left
\* as it was, and the groups before it with mono files have their files.
C9_ReadFailureAbortsRun ==
    RootIsDir /\ BadGroups # {} =>
        /\ pc # "exit0"
        /\ pc \in Terminal => pc = "raised" /\ bank_dirs[idx] = FirstBad
        /\ Same(ManifestFile) /\ ~Wrote(ManifestFile)
        /\ \A g \in Groups : ~Before(g, FirstBad) =>
             /\ ~Wrote(OutFile(g)) /\ Same(OutFile(g))
             /\ g[Len(g)] \notin Range(bank_names)
        /\ \A i \in 1..Len(trace) :
             trace[i].ev = "stdout" => \E g \in Groups :
                 Before(g, FirstBad) /\ trace[i].line = "Processed" /\ trace[i].bank = g[Len(g)]
        /\ pc = "raised" =>
             \A g \in Groups : Before(g, FirstBad) /\ MonoFiles(g) # {} =>
                 /\ Wrote(OutFile(g))
                 /\ fs[OutFile(g)].kind = "json"
                 /\ Len(fs[OutFile(g)].obj) = Cardinality(MonoFiles(g))

C9_Witness ==
    /\ pc = "raised"
    /\ BadGroups = {<<nW, nBankB>>}
    /\ \E p \in SampleFiles(<<nW, nBankB>>) : fs0[p] = WavFile(Mono8Bit)
    /\ Wrote(OutFile(<<nW, nBankA>>))
    /\ ManifestFile \in DOMAIN fs
    /\ fs[ManifestFile] = JsonFile(StaleManifest)

\* C10: the events of a run are, for the glob matches in ascending order and
\* up to the one being processed, the write of <group>.json directly followed
\* by its progress line; manifest.json is written once, after the last match,
\* directly followed by the closing line, whose count is the number of names
\* in the manifest.
IsBankWrite(i) == trace[i].ev = "write" /\ trace[i].path # ManifestFile
IsProgress(i) == trace[i].ev = "stdout" /\ trace[i].line = "Processed"
C10_LinearRun ==
    pc \in {"loop", "exit0", "raised"} =>
        /\ {bank_dirs[k] : k \in 1..Len(bank_dirs)} = Matches
        /\ Ascending([k \in 1..Len(bank_dirs) |-> bank_dirs[k][Len(bank_dirs[k])]])
        /\ \A i \in 1..Len(trace) : IsBankWrite(i) =>
             /\ i < Len(trace) /\ IsProgress(i + 1)
             /\ \E k \in 1..(idx - 1) :
                  /\ bank_dirs[k] \in Groups
                  /\ trace[i].path = OutFile(bank_dirs[k])
                  /\ trace[i + 1].bank = bank_dirs[k][Len(bank_dirs[k])]
                  /\ trace[i + 1].count = Cardinality(MonoFiles(bank_dirs[k]))
        /\ \A i \in 1..Len(trace) : IsProgress(i) => i > 1 /\ IsBankWrite(i - 1)
        /\ \A i, j \in 1..Len(trace) :
             i < j /\ IsProgress(i) /\ IsProgress(j) => StrLess(trace[i].bank, trace[j].bank)
        /\ \A k \in 1..Len(bank_dirs) :
             k < idx /\ bank_dirs[k] \in Groups /\ MonoFiles(bank_dirs[k]) # {}
                 => Wrote(OutFile(bank_dirs[k]))
        /\ Cardinality({i \in 1..Len(trace) :
                          trace[i].ev = "write" /\ trace[i].path = ManifestFile})
             = IF pc = "exit0" THEN 1 ELSE 0
        /\ pc = "exit0" =>
             /\ idx = Len(bank_dirs) + 1
             /\ Len(trace) >= 2
             /\ trace[Len(trace) - 1] = [ev |-> "write", path |-> ManifestFile]
             /\ trace[Len(trace)] = [ev |-> "stdout", line |-> "Generated",
                                     count |-> Len(fs[ManifestFile].obj.banks)]

C10_Witness ==
    /\ pc = "exit0"
    /\ Len(bank_dirs) = 3
    /\ bank_dirs[2] \notin Groups
    /\ Len(trace) = 6

====
